---- MODULE Spec2Model ----
(***************************************************************************)
(* The Denovo frontend of yt: yt/frontends/denovo/data_structures.py.      *)
(* The state is one HDF5 file (its root listing, the content of /denovo   *)
(* and the listing of /denovo/db/hdf5_db) and one DenovoDataset with its   *)
(* DenovoIndex; each action is one method of the frontend.                 *)
(***************************************************************************)
EXTENDS Integers, Sequences, FiniteSets, TLC

VARIABLES
    pc,                 \* the method that runs next, or the stage reached
    root,               \* file: name at the root -> "absent" | "group" | "dataset"
    fault,              \* file: "none" | "open" (h5py.File raises) | "read" (reading the root raises)
    denovo,             \* file: key under /denovo -> [kind, value]
    db,                 \* file: [present, items]: /denovo/db/hdf5_db and its listing <<name, flag>>
    valid,              \* what _is_valid returned
    probe,              \* the validator's handle: "none" | "closed" | "open"
    parameters,         \* ds.parameters: key -> array
    domain_left_edge,   \* ds.domain_left_edge
    domain_right_edge,  \* ds.domain_right_edge
    fluid_types,        \* ds.fluid_types
    field_list,         \* index.field_list
    group_idx,          \* position of the loop of _detect_output_fields in mesh_g
    meshes,             \* number of meshes of the index
    handle,             \* ds._handle
    fhandle,            \* index._fhandle
    opens,              \* h5py.File calls made for the dataset instance
    replaced,           \* handles of the instance overwritten while it is alive
    entered,            \* stage -> number of times the construction entered it
    err                 \* the exception that left the running method, or "none"

vars == <<pc, root, fault, denovo, db, valid, probe, parameters, domain_left_edge,
          domain_right_edge, fluid_types, field_list, group_idx, meshes, handle,
          fhandle, opens, replaced, entered, err>>

fileVars == <<root, fault, denovo, db>>

-----------------------------------------------------------------------------
(* Bounds *)

MaxLen == 3         \* longest coordinate array
MaxGroups == 2      \* longest mesh_g
MaxFlag == 2        \* largest scalar stored in a dataset of hdf5_db

-----------------------------------------------------------------------------
(* Sequences *)

SeqsUpTo(S, n) == UNION {[1..k -> S] : k \in 0..n}

InSeq(s, e) == \E i \in 1..Len(s) : s[i] = e

\* list.remove(e): the first occurrence goes; the caller checks InSeq first,
\* as list.remove raises ValueError for an element that is not in the list
RemoveFirst(s, e) ==
    LET i == CHOOSE k \in 1..Len(s) : s[k] = e /\ \A j \in 1..(k-1) : s[j] # e
    IN  SubSeq(s, 1, i-1) \o SubSeq(s, i+1, Len(s))

RECURSIVE SeqMin(_)
SeqMin(s) ==
    IF Len(s) = 1 THEN s[1]
    ELSE LET m == SeqMin(Tail(s)) IN IF s[1] < m THEN s[1] ELSE m

RECURSIVE SeqMax(_)
SeqMax(s) ==
    IF Len(s) = 1 THEN s[1]
    ELSE LET m == SeqMax(Tail(s)) IN IF s[1] > m THEN s[1] ELSE m

EmptyMap == [k \in {} |-> <<>>]

-----------------------------------------------------------------------------
(* 'egroup_%03i' % group_number *)

Digits == <<"0", "1", "2", "3", "4", "5", "6", "7", "8", "9">>

RECURSIVE Decimal(_)
Decimal(n) ==
    IF n < 10 THEN Digits[n + 1] ELSE Decimal(n \div 10) \o Digits[(n % 10) + 1]

RECURSIVE ZeroPad(_, _)
ZeroPad(s, w) == IF Len(s) >= w THEN s ELSE ZeroPad("0" \o s, w)

\* '%03i' % n: at least three characters, the sign among them
Format03i(n) ==
    IF n >= 0 THEN ZeroPad(Decimal(n), 3) ELSE "-" \o ZeroPad(Decimal(-n), 2)

\* as FieldType, with '%i' for '%03i': no padding
FieldTypeNoPad(group_number) == "egroup_" \o Decimal(group_number)

\* the label as _create_group_fields formats it
FieldType(group_number) == "egroup_" \o Format03i(group_number)

\* as FluidType, with '%02i' for '%03i'
FluidTypeTwoDigits(group_number) == "egroup_" \o ZeroPad(Decimal(group_number), 2)

\* the label as _load_energy_fluid_types formats it
FluidType(group_number) == "egroup_" \o Format03i(group_number)

-----------------------------------------------------------------------------
(* The construction: Unopened, Validated, ParametersLoaded, IndexBuilt,    *)
(* Ready, and the two ways out, Rejected (not a Denovo file) and Aborted   *)
(* (an exception left a method).                                           *)

Stages == {"Unopened", "Rejected", "Validated", "ParametersLoaded", "IndexBuilt",
           "Ready", "Aborted"}

\* the stage the construction is in when the method named by p runs next
StageOf(p) ==
    CASE p \in {"Validated", "parse", "load_parameters", "load_domain_edge",
                "load_energy"} -> "Validated"
      [] p \in {"ParametersLoaded", "initialize_mesh", "detect", "groups"} ->
             "ParametersLoaded"
      [] OTHER -> p

Stage == StageOf(pc)

\* control moves to p; a move into another stage is counted
Goto(p) ==
    /\ pc' = p
    /\ entered' = IF StageOf(p) # StageOf(pc)
                  THEN [entered EXCEPT ![StageOf(p)] = @ + 1]
                  ELSE entered

\* the method returns and p runs next
Return(p) ==
    /\ Goto(p)
    /\ err' = err

\* exception e leaves the method: nothing in the frontend catches it
Raise(e) ==
    /\ Goto("Aborted")
    /\ err' = e

-----------------------------------------------------------------------------
(* DenovoDataset._is_valid *)

IsValid ==
    /\ pc = "Unopened"
    /\ LET opened == fault # "open"
           readable == fault = "none"
           found == root["denovo"] # "absent" \/ root["denovo-forward"] # "absent"
       IN  /\ valid' = (opened /\ readable /\ found)
           /\ probe' = IF ~opened THEN "none"
                       ELSE IF readable THEN "closed" ELSE "open"
           /\ Return(IF opened /\ readable /\ found THEN "Validated" ELSE "Rejected")
    /\ UNCHANGED <<fileVars, parameters, domain_left_edge, domain_right_edge,
                   fluid_types, field_list, group_idx, meshes, handle, fhandle,
                   opens, replaced>>

-----------------------------------------------------------------------------
(* DenovoDataset.__init__, up to the call of the base class's __init__ *)

DatasetInit ==
    /\ pc = "Validated"
    /\ fluid_types' = fluid_types \o <<"denovo">>
    /\ handle' = "HDF5FileHandler"
    /\ Return("parse")
    /\ UNCHANGED <<fileVars, valid, probe, parameters, domain_left_edge,
                   domain_right_edge, field_list, group_idx, meshes, fhandle,
                   opens, replaced>>

-----------------------------------------------------------------------------
(* DenovoDataset._parse_parameter_file: the handle, then the three loaders *)

ParseParameterFile ==
    /\ pc = "parse"
    /\ handle' = "h5py.File"
    /\ opens' = opens + 1
    /\ replaced' = IF handle # "none" THEN replaced + 1 ELSE replaced
    /\ Return("load_parameters")
    /\ UNCHANGED <<fileVars, valid, probe, parameters, domain_left_edge,
                   domain_right_edge, fluid_types, field_list, group_idx, meshes,
                   fhandle>>

Denylist == {"flux", "source", "angular_flux", "block"}

\* as LoadedKeys, with key == 'block' forgotten in the test of the denylist
LoadedKeysNoBlock ==
    {k \in DOMAIN denovo :
        denovo[k].kind = "dataset" /\ k \notin {"flux", "source", "angular_flux"}}

\* the keys _load_parameters stores: the datasets of /denovo outside the denylist
LoadedKeys ==
    {k \in DOMAIN denovo : denovo[k].kind = "dataset" /\ k \notin Denylist}

LoadParameters ==
    /\ pc = "load_parameters"
    /\ IF root["denovo"] = "absent"
       THEN Raise("KeyError") /\ UNCHANGED parameters
       ELSE IF root["denovo"] = "dataset"
       THEN Raise("AttributeError") /\ UNCHANGED parameters
       ELSE /\ parameters' = [k \in DOMAIN parameters \cup LoadedKeys |->
                                 IF k \in LoadedKeys THEN denovo[k].value
                                 ELSE parameters[k]]
            /\ Return("load_domain_edge")
    /\ UNCHANGED <<fileVars, valid, probe, domain_left_edge, domain_right_edge,
                   fluid_types, field_list, group_idx, meshes, handle, fhandle,
                   opens, replaced>>

\* the first exception of mesh_x.min(), mesh_y.min(), mesh_z.min() and the
\* three max() after them, in the order the two arrays are built; "none" if none
EdgeError ==
    CASE Len(parameters["mesh_x"]) = 0 -> "ValueError"
      [] "mesh_y" \notin DOMAIN parameters -> "KeyError"
      [] Len(parameters["mesh_y"]) = 0 -> "ValueError"
      [] "mesh_z" \notin DOMAIN parameters -> "KeyError"
      [] Len(parameters["mesh_z"]) = 0 -> "ValueError"
      [] OTHER -> "none"

\* as LeftEdge, taking the first element of each array for its minimum
LeftEdgeFirst(p) == <<p["mesh_x"][1], p["mesh_y"][1], p["mesh_z"][1]>>

LeftEdge(p) == <<SeqMin(p["mesh_x"]), SeqMin(p["mesh_y"]), SeqMin(p["mesh_z"])>>

RightEdge(p) == <<SeqMax(p["mesh_x"]), SeqMax(p["mesh_y"]), SeqMax(p["mesh_z"])>>

LoadDomainEdge ==
    /\ pc = "load_domain_edge"
    /\ IF "mesh_x" \in DOMAIN parameters
       THEN IF EdgeError # "none"
            THEN Raise(EdgeError) /\ UNCHANGED <<domain_left_edge, domain_right_edge>>
            ELSE /\ domain_left_edge' = LeftEdge(parameters)
                 /\ domain_right_edge' = RightEdge(parameters)
                 /\ Return("load_energy")
       ELSE /\ domain_left_edge' = <<>>
            /\ domain_right_edge' = <<>>
            /\ Return("load_energy")
    /\ UNCHANGED <<fileVars, valid, probe, parameters, fluid_types, field_list,
                   group_idx, meshes, handle, fhandle, opens, replaced>>

\* the labels the loop of _load_energy_fluid_types appends, in mesh_g order
FluidLabels(mesh_g) == [i \in 1..Len(mesh_g) |-> FluidType(mesh_g[i])]

\* as LoadEnergyFluidTypes, with the KeyError of a missing mesh_g caught and
\* the construction going on
LoadEnergyFluidTypesCaught ==
    /\ pc = "load_energy"
    /\ IF "mesh_g" \notin DOMAIN parameters
       THEN /\ err' = "KeyError"
            /\ Goto("ParametersLoaded")
            /\ UNCHANGED fluid_types
       ELSE /\ fluid_types' = IF Len(parameters["mesh_g"]) > 0
                              THEN fluid_types \o FluidLabels(parameters["mesh_g"])
                              ELSE fluid_types
            /\ Return("ParametersLoaded")
    /\ UNCHANGED <<fileVars, valid, probe, parameters, domain_left_edge,
                   domain_right_edge, field_list, group_idx, meshes, handle,
                   fhandle, opens, replaced>>

LoadEnergyFluidTypes ==
    /\ pc = "load_energy"
    /\ IF "mesh_g" \notin DOMAIN parameters
       THEN Raise("KeyError") /\ UNCHANGED fluid_types
       ELSE /\ fluid_types' = IF Len(parameters["mesh_g"]) > 0
                              THEN fluid_types \o FluidLabels(parameters["mesh_g"])
                              ELSE fluid_types
            /\ Return("ParametersLoaded")
    /\ UNCHANGED <<fileVars, valid, probe, parameters, domain_left_edge,
                   domain_right_edge, field_list, group_idx, meshes, handle,
                   fhandle, opens, replaced>>

-----------------------------------------------------------------------------
(* DenovoIndex.__init__ and the two steps the base class's __init__ runs *)

IndexInit ==
    /\ pc = "ParametersLoaded"
    /\ fhandle' = "h5py.File"
    /\ opens' = opens + 1
    /\ Return("initialize_mesh")
    /\ UNCHANGED <<fileVars, valid, probe, parameters, domain_left_edge,
                   domain_right_edge, fluid_types, field_list, group_idx, meshes,
                   handle, replaced>>

InitializeMesh ==
    /\ pc = "initialize_mesh"
    /\ IF {"mesh_x", "mesh_y", "mesh_z"} \subseteq DOMAIN parameters
       THEN meshes' = 1 /\ Return("detect")
       ELSE Raise("KeyError") /\ UNCHANGED meshes
    /\ UNCHANGED <<fileVars, valid, probe, parameters, domain_left_edge,
                   domain_right_edge, fluid_types, field_list, group_idx, handle,
                   fhandle, opens, replaced>>

\* as Enumerate, without the test of val.value
EnumerateAll(field_type) ==
    [i \in 1..Len(db.items) |-> <<field_type, db.items[i][1]>>]

\* [(field_type, key) for key, val in hdf5_db.items() if val.value]
Enumerate(field_type) ==
    LET on == SelectSeq(db.items, LAMBDA it : it[2] # 0)
    IN  [i \in 1..Len(on) |-> <<field_type, on[i][1]>>]

\* the list after the removal of (field_type, 'angular_mesh') if it is there
DropAngularMesh(list, field_type) ==
    IF InSeq(list, <<field_type, "angular_mesh">>)
    THEN RemoveFirst(list, <<field_type, "angular_mesh">>)
    ELSE list

\* as RemoveBlock, with the removal guarded as the one of angular_mesh is
RemoveBlockGuarded(list, field_type) ==
    [raised |-> FALSE,
     list |-> IF InSeq(list, <<field_type, "block">>)
              THEN RemoveFirst(list, <<field_type, "block">>)
              ELSE list]

\* field_list.remove((field_type, 'block')): the list afterwards, and whether
\* remove raised ValueError because the pair is not in the list
RemoveBlock(list, field_type) ==
    IF InSeq(list, <<field_type, "block">>)
    THEN [raised |-> FALSE, list |-> RemoveFirst(list, <<field_type, "block">>)]
    ELSE [raised |-> TRUE, list |-> list]

\* num_groups of _detect_output_fields
NumGroups ==
    IF "mesh_g" \in DOMAIN parameters THEN Len(parameters["mesh_g"]) ELSE 0

DetectOutputFields ==
    /\ pc = "detect"
    /\ IF NumGroups > 0
       THEN /\ field_list' = <<>>
            /\ group_idx' = 1
            /\ Return("groups")
       ELSE /\ UNCHANGED group_idx
            /\ IF ~db.present
               THEN Raise("KeyError") /\ UNCHANGED field_list
               ELSE LET list == DropAngularMesh(Enumerate("denovo"), "denovo")
                        out == RemoveBlock(list, "denovo")
                    IN  /\ field_list' = out.list
                        /\ IF out.raised THEN Raise("ValueError")
                           ELSE Return("IndexBuilt")
    /\ UNCHANGED <<fileVars, valid, probe, parameters, domain_left_edge,
                   domain_right_edge, fluid_types, meshes, handle, fhandle, opens,
                   replaced>>

\* _create_group_fields(group), for the group the loop has reached
CreateGroupFields ==
    /\ pc = "groups"
    /\ LET mesh_g == parameters["mesh_g"]
           field_type == FieldType(mesh_g[group_idx])
       IN  IF ~db.present
           THEN Raise("KeyError") /\ UNCHANGED <<field_list, group_idx>>
           ELSE LET list == DropAngularMesh(field_list \o Enumerate(field_type),
                                            field_type)
                    out == RemoveBlock(list, field_type)
                IN  /\ field_list' = out.list
                    /\ IF out.raised
                       THEN UNCHANGED group_idx /\ Raise("ValueError")
                       ELSE /\ group_idx' = group_idx + 1
                            /\ Return(IF group_idx = Len(mesh_g) THEN "IndexBuilt"
                                      ELSE "groups")
    /\ UNCHANGED <<fileVars, valid, probe, parameters, domain_left_edge,
                   domain_right_edge, fluid_types, meshes, handle, fhandle, opens,
                   replaced>>

-----------------------------------------------------------------------------
(* DenovoDataset.__init__, after the base class's __init__ has returned *)

DatasetReady ==
    /\ pc = "IndexBuilt"
    /\ Return("Ready")
    /\ UNCHANGED <<fileVars, valid, probe, parameters, domain_left_edge,
                   domain_right_edge, fluid_types, field_list, group_idx, meshes,
                   handle, fhandle, opens, replaced>>

-----------------------------------------------------------------------------
(* The files and parameter mappings the specifications start from *)

\* nothing or one element of S
Opt(S) == {{}} \cup {{v} : v \in S}

\* the mapping with a key for every non-empty choice
Pick(opt) ==
    [k \in {j \in DOMAIN opt : opt[j] # {}} |-> CHOOSE v \in opt[k] : TRUE]

Dataset(v) == [kind |-> "dataset", value |-> v]

Group == [kind |-> "group", value |-> <<>>]

RootNames == {"denovo", "denovo-forward"}

RootKinds == {"absent", "group", "dataset"}

GroupNumbers == {1, 2, 1000}

MeshGs == SeqsUpTo(GroupNumbers, MaxGroups)

FieldNames == {"angular_mesh", "block", "flux"}

\* the listings of hdf5_db: every order of every set of names, every flag
Listings ==
    {s \in SeqsUpTo(FieldNames \X (0..MaxFlag), Cardinality(FieldNames)) :
        \A i, j \in 1..Len(s) : i # j => s[i][1] # s[j][1]}

\* the listings in the order h5py iterates a group by default, by name
NameOrder == <<"angular_mesh", "block", "flux">>

ListingsByName ==
    {s \in Listings :
        /\ \A i \in 1..Len(s) : s[i][2] \in {0, 1}
        /\ \A i, j \in 1..Len(s) : i < j =>
               \E a, b \in 1..Len(NameOrder) :
                   a < b /\ NameOrder[a] = s[i][1] /\ NameOrder[b] = s[j][1]}

NoDb == [present |-> FALSE, items |-> <<>>]

Dbs(L) == {NoDb} \cup {[present |-> TRUE, items |-> s] : s \in L}

\* the state of a dataset no method has run on, with p to run next; the
\* fluid types the base class starts with are not the frontend's and are
\* left out
Fresh(p) ==
    /\ pc = p
    /\ valid = FALSE
    /\ probe = "none"
    /\ parameters = EmptyMap
    /\ domain_left_edge = <<>>
    /\ domain_right_edge = <<>>
    /\ fluid_types = <<>>
    /\ field_list = <<>>
    /\ group_idx = 0
    /\ meshes = 0
    /\ handle = "none"
    /\ fhandle = "none"
    /\ opens = 0
    /\ replaced = 0
    /\ entered = [s \in Stages |-> IF s = StageOf(p) THEN 1 ELSE 0]
    /\ err = "none"

\* a file that cannot be read, or has no group /denovo, has nothing below it
\* that the frontend can see; a file with /denovo has any of the contents
Init ==
    /\ Fresh("Unopened")
    /\ fault \in {"none", "open", "read"}
    /\ root \in [RootNames -> RootKinds]
    /\ IF fault = "none" /\ root["denovo"] = "group"
       THEN /\ \E mx \in Opt({Dataset(<<0, 1, 2>>)}),
                  my \in Opt({Dataset(<<0, 1>>)}),
                  mz \in Opt({Dataset(<<0, 5>>)}),
                  mg \in Opt({Dataset(g) : g \in MeshGs}) :
                   denovo = Pick([mesh_x |-> mx, mesh_y |-> my, mesh_z |-> mz,
                                  mesh_g |-> mg, block |-> {Dataset(<<1>>)},
                                  db |-> {Group}])
            /\ db \in Dbs(ListingsByName)
       ELSE /\ denovo = EmptyMap
            /\ db = NoDb

Next ==
    \/ IsValid
    \/ DatasetInit
    \/ ParseParameterFile
    \/ LoadParameters
    \/ LoadDomainEdge
    \/ LoadEnergyFluidTypes
    \/ IndexInit
    \/ InitializeMesh
    \/ DetectOutputFields
    \/ CreateGroupFields
    \/ DatasetReady

Spec == Init /\ [][Next]_vars

-----------------------------------------------------------------------------
(* _load_parameters alone, on every content of /denovo over ParamKeys: each *)
(* key is absent, a group, or a dataset with one of two values              *)

ParamKeys == {"flux", "source", "angular_flux", "block", "mesh_x", "db"}

ParamNodes == {Group, Dataset(<<0>>), Dataset(<<1, 2>>)}

InitParams ==
    /\ Fresh("load_parameters")
    /\ fault = "none"
    /\ root = [n \in RootNames |-> IF n = "denovo" THEN "group" ELSE "absent"]
    /\ \E opt \in [ParamKeys -> Opt(ParamNodes)] : denovo = Pick(opt)
    /\ db = NoDb

NextParams == LoadParameters

SpecParams == InitParams /\ [][NextParams]_vars

-----------------------------------------------------------------------------
(* _load_domain_edge alone, on every parameter mapping with or without each *)
(* coordinate array; mesh_x has up to MaxLen elements, mesh_y and mesh_z    *)
(* one fewer                                                                *)

InitEdge ==
    /\ pc = "load_domain_edge"
    /\ valid = TRUE
    /\ probe = "closed"
    /\ \E mx \in Opt(SeqsUpTo({0, 1, 2}, MaxLen)),
          my \in Opt(SeqsUpTo({0, 1}, MaxLen - 1)),
          mz \in Opt(SeqsUpTo({0, 5}, MaxLen - 1)) :
           parameters = Pick([mesh_x |-> mx, mesh_y |-> my, mesh_z |-> mz])
    /\ domain_left_edge = <<>>
    /\ domain_right_edge = <<>>
    /\ fluid_types = <<"denovo">>
    /\ field_list = <<>>
    /\ group_idx = 0
    /\ meshes = 0
    /\ handle = "h5py.File"
    /\ fhandle = "none"
    /\ opens = 1
    /\ replaced = 1
    /\ entered = [s \in Stages |-> IF s \in {"Unopened", "Validated"} THEN 1 ELSE 0]
    /\ err = "none"
    /\ fault = "none"
    /\ root = [n \in RootNames |-> IF n = "denovo" THEN "group" ELSE "absent"]
    /\ denovo = [k \in DOMAIN parameters |-> Dataset(parameters[k])]
    /\ db = NoDb

NextEdge == LoadDomainEdge

SpecEdge == InitEdge /\ [][NextEdge]_vars

-----------------------------------------------------------------------------
(* _detect_output_fields alone, on every mesh_g (absent, empty or up to     *)
(* MaxGroups groups) and every listing of hdf5_db                           *)

InitFields ==
    /\ pc = "detect"
    /\ valid = TRUE
    /\ probe = "closed"
    /\ \E mg \in Opt(MeshGs) : parameters = Pick([mesh_g |-> mg])
    /\ domain_left_edge = <<>>
    /\ domain_right_edge = <<>>
    /\ fluid_types = <<"denovo">>
    /\ field_list = <<>>
    /\ group_idx = 0
    /\ meshes = 1
    /\ handle = "h5py.File"
    /\ fhandle = "h5py.File"
    /\ opens = 2
    /\ replaced = 1
    /\ entered = [s \in Stages |->
                     IF s \in {"Unopened", "Validated", "ParametersLoaded"}
                     THEN 1 ELSE 0]
    /\ err = "none"
    /\ fault = "none"
    /\ root = [n \in RootNames |-> IF n = "denovo" THEN "group" ELSE "absent"]
    /\ denovo = [k \in DOMAIN parameters |-> Dataset(parameters[k])]
    /\ db \in Dbs(Listings)

NextFields ==
    \/ DetectOutputFields
    \/ CreateGroupFields

SpecFields == InitFields /\ [][NextFields]_vars

-----------------------------------------------------------------------------
(* Claims *)

Elems(s) == {s[i] : i \in 1..Len(s)}

\* C1: _is_valid never raises; it returns true only if the file opens and is
\* read and its root holds a group named "denovo" or "denovo-forward", and
\* false for every file without both groups and for every failure to open
\* or read the file.
C1_ValidatorContract ==
    pc # "Unopened" =>
        /\ err = "none"
        /\ valid <=> /\ fault = "none"
                     /\ \/ root["denovo"] = "group"
                        \/ root["denovo-forward"] = "group"

\* C2: after _load_parameters the keys of the parameter mapping are exactly
\* the datasets directly under /denovo that are not flux, source,
\* angular_flux or block, each with its stored value; groups are left out.
C2_LoadedParameters ==
    pc # "load_parameters" =>
        /\ pc = "load_domain_edge"
        /\ DOMAIN parameters =
               {k \in DOMAIN denovo : denovo[k].kind = "dataset"}
                   \ {"flux", "source", "angular_flux", "block"}
        /\ \A k \in DOMAIN parameters : parameters[k] = denovo[k].value

\* a denylisted dataset, a nested group and a loaded dataset in one file
C2_Witness ==
    /\ pc = "load_domain_edge"
    /\ "block" \in DOMAIN denovo /\ denovo["block"].kind = "dataset"
    /\ "flux" \in DOMAIN denovo /\ denovo["flux"].kind = "dataset"
    /\ "db" \in DOMAIN denovo /\ denovo["db"].kind = "group"
    /\ DOMAIN parameters = {"mesh_x"}
    /\ parameters["mesh_x"] = <<1, 2>>

AllCoordinates ==
    /\ {"mesh_x", "mesh_y", "mesh_z"} \subseteq DOMAIN parameters
    /\ \A k \in {"mesh_x", "mesh_y", "mesh_z"} : Len(parameters[k]) > 0

Axis == <<"mesh_x", "mesh_y", "mesh_z">>

\* C3: with the three coordinate arrays present and non-empty,
\* _load_domain_edge returns the per-axis minimum as the left edge and the
\* per-axis maximum as the right edge, whatever the order of the elements;
\* [0,1,2], [0,1], [0,5] give [0,0,0] and [2,1,5]; left[i] <= right[i].
C3_DomainEdge ==
    (pc # "load_domain_edge" /\ AllCoordinates) =>
        /\ pc = "load_energy"
        /\ Len(domain_left_edge) = 3 /\ Len(domain_right_edge) = 3
        /\ \A i \in 1..3 :
              /\ domain_left_edge[i] \in Elems(parameters[Axis[i]])
              /\ domain_right_edge[i] \in Elems(parameters[Axis[i]])
              /\ \A e \in Elems(parameters[Axis[i]]) :
                     domain_left_edge[i] <= e /\ e <= domain_right_edge[i]
              /\ domain_left_edge[i] <= domain_right_edge[i]
        /\ (parameters = [mesh_x |-> <<0, 1, 2>>, mesh_y |-> <<0, 1>>,
                          mesh_z |-> <<0, 5>>]) =>
               /\ domain_left_edge = <<0, 0, 0>>
               /\ domain_right_edge = <<2, 1, 5>>

\* the arrays of the example in another order
C3_Witness ==
    /\ pc = "load_energy"
    /\ parameters = [mesh_x |-> <<2, 0, 1>>, mesh_y |-> <<1, 0>>,
                     mesh_z |-> <<5, 0>>]
    /\ domain_left_edge = <<0, 0, 0>>
    /\ domain_right_edge = <<2, 1, 5>>

\* _parse_parameter_file has loaded the parameters and then raised
ParseRaised ==
    /\ pc = "Aborted"
    /\ root["denovo"] = "group"
    /\ entered["ParametersLoaded"] = 0

\* C4: when a coordinate array or mesh_g is absent from the loaded
\* parameters, _parse_parameter_file completes without raising, with two
\* empty edges when the coordinates are absent and no egroup fluid type when
\* mesh_g is absent.
C4_MissingOptionalData ==
    (root["denovo"] = "group" /\ fault = "none"
        /\ ~({"mesh_x", "mesh_y", "mesh_z", "mesh_g"} \subseteq DOMAIN denovo)) =>
        /\ ~ParseRaised
        /\ (pc = "ParametersLoaded" /\ "mesh_x" \notin DOMAIN denovo) =>
               domain_left_edge = <<>> /\ domain_right_edge = <<>>
        /\ (pc = "ParametersLoaded" /\ "mesh_g" \notin DOMAIN denovo) =>
               fluid_types = <<"denovo">>

-----------------------------------------------------------------------------
(* Claims about the field list *)

\* mesh_g as the index reads it: no groups when the key is absent
MeshG == IF "mesh_g" \in DOMAIN parameters THEN parameters["mesh_g"] ELSE <<>>

\* the labels of the group numbers of the model, written out
ExpectedLabel == (1 :> "egroup_001") @@ (2 :> "egroup_002") @@ (1000 :> "egroup_1000")

\* the names of hdf5_db with a truthy scalar, in listing order
TruthyNames ==
    LET on == SelectSeq(db.items, LAMBDA it : it[2] > 0)
    IN  [i \in 1..Len(on) |-> on[i][1]]

\* and of those, the ones that are neither block nor angular_mesh
KeptNames ==
    SelectSeq(TruthyNames, LAMBDA n : n \notin {"block", "angular_mesh"})

Tagged(T, names) == [i \in 1..Len(names) |-> <<T, names[i]>>]

TypesListed == {field_list[i][1] : i \in 1..Len(field_list)}

\* the names paired with T in field_list, in order
NamesOf(T) ==
    LET sel == SelectSeq(field_list, LAMBDA pr : pr[1] = T)
    IN  [i \in 1..Len(sel) |-> sel[i][2]]

RECURSIVE Repeat(_, _)
Repeat(s, k) == IF k = 0 THEN <<>> ELSE s \o Repeat(s, k - 1)

\* how many times _detect_output_fields enumerates hdf5_db under label T
Occurrences(T) ==
    IF Len(MeshG) = 0 THEN 1
    ELSE Cardinality({i \in 1..Len(MeshG) : ExpectedLabel[MeshG[i]] = T})

\* C5 as stated: after _detect_output_fields, the names paired with each
\* field type are exactly the truthy names of hdf5_db without block and
\* angular_mesh, each exactly once and in listing order.
C5_NamesExactlyOnce ==
    pc = "IndexBuilt" => \A T \in TypesListed : NamesOf(T) = KeptNames

\* C5 as amended: after _detect_output_fields, the names paired with each
\* field type T are the truthy names of hdf5_db without block and
\* angular_mesh, in listing order, once for every occurrence of T's group
\* number in mesh_g (exactly once in the fallback mode and for a group
\* number that occurs once); falsy names, block and angular_mesh never
\* appear.
C5_NamesOncePerOccurrence ==
    pc = "IndexBuilt" =>
        /\ \A T \in TypesListed : NamesOf(T) = Repeat(KeptNames, Occurrences(T))
        /\ \A i \in 1..Len(field_list) :
               /\ field_list[i][2] \notin {"block", "angular_mesh"}
               /\ \E j \in 1..Len(db.items) :
                      db.items[j][1] = field_list[i][2] /\ db.items[j][2] # 0
        /\ \A n \in Elems(KeptNames) :
               \E i \in 1..Len(field_list) : field_list[i][2] = n

\* a repeated group number, a falsy flag and a kept name
C5_Witness ==
    /\ pc = "IndexBuilt"
    /\ MeshG = <<1, 1>>
    /\ db.items = <<<<"flux", 2>>, <<"block", 1>>, <<"angular_mesh", 0>>>>
    /\ field_list = <<<<"egroup_001", "flux">>, <<"egroup_001", "flux">>>>

RECURSIVE PerGroup(_)
PerGroup(g) ==
    IF g = <<>> THEN <<>>
    ELSE Tagged(ExpectedLabel[Head(g)], KeptNames) \o PerGroup(Tail(g))

\* C6: the field types depend on mesh_g alone: with mesh_g empty or absent
\* hdf5_db is enumerated once under the type 'denovo'; with mesh_g non-empty
\* the field list is the concatenation, in mesh_g order, of one filtered
\* list per group, labelled 'egroup_' and the group number zero-padded to
\* width 3, and no pair has the type 'denovo'.
C6_TypesFollowMeshG ==
    /\ pc = "IndexBuilt" =>
           field_list = IF Len(MeshG) = 0 THEN Tagged("denovo", KeptNames)
                        ELSE PerGroup(MeshG)
    /\ TypesListed \subseteq
           IF Len(MeshG) = 0 THEN {"denovo"}
           ELSE {ExpectedLabel[MeshG[i]] : i \in 1..Len(MeshG)}

\* the example of the specification: mesh_g = [1, 2]
C6_Witness ==
    /\ pc = "IndexBuilt"
    /\ MeshG = <<1, 2>>
    /\ db.items = <<<<"angular_mesh", 1>>, <<"block", 1>>, <<"flux", 1>>>>
    /\ field_list = <<<<"egroup_001", "flux">>, <<"egroup_002", "flux">>>>

BlockTruthy ==
    \E i \in 1..Len(db.items) : db.items[i][1] = "block" /\ db.items[i][2] # 0

\* C9: without a truthy 'block' in hdf5_db _detect_output_fields ends in the
\* error of the removal of a pair that is not in the list, in both modes; in
\* the energy-group mode on the first group, with that group's pairs already
\* in field_list; with a truthy 'block' it completes for every mesh_g and
\* every other flag.
C9_BlockRequired ==
    /\ ~BlockTruthy =>
           /\ pc # "IndexBuilt"
           /\ pc = "groups" => group_idx = 1
           /\ (pc = "Aborted" /\ db.present) =>
                  /\ err = "ValueError"
                  /\ field_list =
                         SelectSeq(Tagged(IF Len(MeshG) = 0 THEN "denovo"
                                          ELSE ExpectedLabel[MeshG[1]],
                                          TruthyNames),
                                   LAMBDA pr : pr[2] # "angular_mesh")
                  /\ Len(MeshG) > 0 => group_idx = 1
    /\ BlockTruthy => pc # "Aborted"

\* two groups, no block: the first group's pair is in the list, the second
\* group was never enumerated
C9_Witness ==
    /\ pc = "Aborted"
    /\ err = "ValueError"
    /\ MeshG = <<1, 2>>
    /\ db.items = <<<<"flux", 1>>, <<"block", 0>>>>
    /\ field_list = <<<<"egroup_001", "flux">>>>

-----------------------------------------------------------------------------
(* Claims about the construction *)

StageOrder == <<"Unopened", "Validated", "ParametersLoaded", "IndexBuilt", "Ready">>

\* a stage to its successor, and the two ways out
AllowedMoves ==
    {<<StageOrder[i], StageOrder[i + 1]>> : i \in 1..(Len(StageOrder) - 1)}
        \cup {<<"Unopened", "Rejected">>, <<"Validated", "Aborted">>,
              <<"ParametersLoaded", "Aborted">>}

C8_OneHandle ==
    pc = "Ready" =>
        /\ opens = 1
        /\ replaced = 0
        /\ probe = "closed"

\* C10: every field type in the index's field_list is one of the dataset's
\* fluid_types, for every mesh_g, repeated and four-digit group numbers
\* included.
C10_TypesRegistered ==
    \A i \in 1..Len(field_list) : field_list[i][1] \in Elems(fluid_types)

\* a four-digit group number and a one-digit one, in a dataset that is Ready
C10_Witness ==
    /\ pc = "Ready"
    /\ MeshG = <<1000, 1>>
    /\ fluid_types = <<"denovo", "egroup_1000", "egroup_001">>
    /\ field_list = <<<<"egroup_1000", "flux">>, <<"egroup_001", "flux">>>>

====
